---- MODULE Spec2Model ----
(***************************************************************************)
(* A model of gamemaster.py: the leader election of the coordinators       *)
(* (classes Gamemaster and GamemasterFSM, process_request) and the Game    *)
(* engine (class Game) driven by the unit connections (handler).           *)
(***************************************************************************)
EXTENDS Naturals, Integers, Sequences, FiniteSets, TLC

(***************************************************************************)
(* Bounds of the model.                                                    *)
(***************************************************************************)
\* number of coordinator processes of the cluster (-g/--gamemaster-urls)
NumCoordinators == 2
\* how many failures may happen: a coordinator process killed, or an HTTP
\* request to a live peer running into the 1 s timeout
MaxFailures == 2
\* number of button units (unit ids 1 .. NumUnits)
NumUnits == 3
\* number of button units of the venues in which two players may compete
NumMultiplayerUnits == 2

\* the units of the venue of four units
NumQuartetUnits == 4

Quartet == 1 .. NumQuartetUnits
\* how many live tasks may exist beside the one the control_task slot holds
MaxTasks == 1

(***************************************************************************)
(* PART I - leader election                                                *)
(***************************************************************************)
VARIABLES
    alive,          \* alive[i]: coordinator i's process is running
    fsm_state,      \* GamemasterFSM._state of coordinator i
    pc,             \* where coordinator i's main loop / step() is suspended
    results,        \* results[i][j]: the asyncio.gather slot of peer j
    failures,       \* number of crashes and timed-out requests so far
    stable,         \* environment: no crash and no timeout from now on
    active_gamemaster,  \* Gamemaster.active_gamemaster of coordinator i
    responses       \* responses[i][j]: the HTTP response of peer j the slot
                    \* results[i][j] was computed from

electVars == <<alive, fsm_state, pc, results, failures, stable, active_gamemaster,
               responses>>

(***************************************************************************)
(* PART II - the Game engine: the fields of class Game                     *)
(***************************************************************************)
VARIABLES
    state,              \* Game._state
    ACTIVE,             \* the Unit objects registered, one per key unit_id
    previous_correct,   \* set of unit ids
    unit_list,          \* list of unit ids
    correct,            \* unit id or NoUnit
    wrong,              \* unit id or NoUnit
    pressed_units,      \* set of Unit objects (see Obj, Stale)
    last_press_time,    \* "None", or how long ago _is_fast_press last ran
    player_scores,      \* <<score of player 1, score of player 2>>
    player_unit_queue,  \* <<queue of player 1, queue of player 2>>
    correct_units,      \* <<target of player 1, target of player 2>>
    control_task,       \* Game._control_task: the task the slot refers to
    tasks,              \* the live asyncio tasks the slot does not refer to
    hung,               \* the event loop spins in a loop that never awaits
    partition,          \* history: the units _setup_multiplayer_game gave to
                        \* player 1 and to player 2 in the current round
    counted,            \* history: the units of partition[p] a press of which
                        \* incremented player_scores[p] in the current round
    older               \* the unit ids an open connection registered before
                        \* the connection that holds their entry of ACTIVE

gameVars == <<state, ACTIVE, previous_correct, unit_list, correct, wrong,
              pressed_units, last_press_time, player_scores, player_unit_queue,
              correct_units, control_task, tasks, hung, partition, counted,
              older>>

vars == <<electVars, gameVars>>

Coordinators == 1 .. NumCoordinators

\* main(): Gamemaster(options.url, options.priority, ...): coordinator i runs
\* with url i and priority i (priorities are unique)
priority(i) == i

\* gamemaster_urls without the own url
Peers(i) == Coordinators \ {i}

\* values a gather slot holds
Pending == [tag |-> "pending", url |-> 0]
None == [tag |-> "None", url |-> 0]
False == [tag |-> "False", url |-> 0]
True == [tag |-> "True", url |-> 0]
Url(j) == [tag |-> "url", url |-> j]

\* an HTTP exchange that raised (connection refused, timeout)
NoResponse == [status |-> 0, body |-> 0]

\* active_gamemaster = '': no active coordinator is known
NoUrl == 0

\* GamemasterFSM.STATES
STATES == {"Initial", "Intent", "Gamemaster", "End"}

\* the values the headers Upgrade and Connection of a request carry; "" is
\* req_headers.get(..., '') of a header the request lacks
UpgradeValues == {"", "websocket", "WebSocket", "h2c"}
ConnectionValues == {"", "Upgrade", "keep-alive", "keep-alive, Upgrade"}

\* str.lower
lower(s) ==
    CASE s = "WebSocket" -> "websocket"
      [] s = "Upgrade" -> "upgrade"
      [] s = "keep-alive, Upgrade" -> "keep-alive, upgrade"
      [] OTHER -> s

\* sub in s, for the two words process_request looks for
in(sub, s) ==
    CASE sub = "websocket" -> s = "websocket"
      [] sub = "upgrade" -> s \in {"upgrade", "keep-alive, upgrade"}
      [] OTHER -> FALSE

\* the headers of the requests aiohttp's session.get sends
NoHeaders == [Upgrade |-> "", Connection |-> ""]

\* process_request returns None: the server goes on with the websocket
\* handshake and answers 101 Switching Protocols
Handshake == [status |-> 101, body |-> NoUrl]

\* the GamemasterFSM coordinator j hands to process_request (process_wrap)
game_params(j) ==
    [_state |-> fsm_state[j],
     model |-> [url |-> j, priority |-> priority(j),
                active_gamemaster |-> active_gamemaster[j]]]

is_websocket_request(request_headers) ==
    LET upgrade_header == lower(request_headers.Upgrade)
        connection_header == lower(request_headers.Connection)
    IN  in("websocket", upgrade_header) /\ in("upgrade", connection_header)

\* process_request had it answered 404 to every path but the two the election
\* uses
process_request_strict(path, req_headers, game_params_) ==
    LET upgrade_header == lower(req_headers.Upgrade)
        connection_header == lower(req_headers.Connection)
    IN  IF in("websocket", upgrade_header) /\ in("upgrade", connection_header)
        THEN Handshake
        ELSE IF path = "/gamemaster"
        THEN IF game_params_._state = "Gamemaster"
             THEN [status |-> 302, body |-> game_params_.model.priority]
             ELSE [status |-> 200, body |-> game_params_.model.priority]
        ELSE IF path = "/request_gamemaster"
        THEN IF game_params_._state \in {"Initial", "End"}
             THEN [status |-> 200, body |-> game_params_.model.priority]
             ELSE IF game_params_._state = "Intent"
             THEN [status |-> 409, body |-> game_params_.model.priority]
             ELSE [status |-> 302, body |-> game_params_.model.url]
        ELSE [status |-> 404, body |-> NoUrl]

\* process_request, answered by the coordinator whose GamemasterFSM is
\* game_params_; the body of the 404 answer is a text no caller reads
process_request(path, req_headers, game_params_) ==
    LET upgrade_header == lower(req_headers.Upgrade)
        connection_header == lower(req_headers.Connection)
    IN  IF in("websocket", upgrade_header) /\ in("upgrade", connection_header)
        THEN Handshake
        ELSE IF path = "/alive"
        THEN IF game_params_._state = "Gamemaster"
             THEN [status |-> 302, body |-> game_params_.model.url]
             ELSE [status |-> 200, body |-> game_params_.model.active_gamemaster]
        ELSE IF path = "/gamemaster"
        THEN IF game_params_._state = "Gamemaster"
             THEN [status |-> 302, body |-> game_params_.model.priority]
             ELSE [status |-> 200, body |-> game_params_.model.priority]
        ELSE IF path = "/request_gamemaster"
        THEN IF game_params_._state \in {"Initial", "End"}
             THEN [status |-> 200, body |-> game_params_.model.priority]
             ELSE IF game_params_._state = "Intent"
             THEN [status |-> 409, body |-> game_params_.model.priority]
             ELSE [status |-> 302, body |-> game_params_.model.url]
        ELSE [status |-> 404, body |-> NoUrl]

\* Gamemaster._get_is_gamemaster of coordinator i for peer url j
_get_is_gamemaster(i, j, response) ==
    IF response = NoResponse THEN None
    ELSE IF response.status \in {200, 302}
    THEN IF response.body < priority(i) THEN Url(j) ELSE None
    ELSE False

\* Gamemaster._request_gamemaster
_request_gamemaster(response) ==
    IF response = NoResponse THEN None
    ELSE IF response.status = 200 THEN True
    ELSE IF response.status = 302 THEN False
    ELSE None

\* Gamemaster.get_gamemaster, once the gather has returned: the url of the
\* best-ranked peer seen, None or False
get_gamemaster(i) ==
    LET active_gms == {j \in Peers(i) : results[i][j] \notin {False, None}}
    IN  IF active_gms # {}
        THEN Url(CHOOSE j \in active_gms : \A k \in active_gms : priority(j) <= priority(k))
        ELSE IF \A j \in Peers(i) : results[i][j] = None THEN None
        ELSE False

\* request_gamemaster had it waited for the consent of every peer, the
\* unreachable ones included
request_gamemaster_unanimous(i) ==
    IF \A j \in Peers(i) : results[i][j] = True
    THEN True
    ELSE IF \E j \in Peers(i) : results[i][j] # None /\ results[i][j] = False
    THEN False
    ELSE None

\* Gamemaster.request_gamemaster, once the gather has returned
request_gamemaster(i) ==
    IF \A j \in Peers(i) : results[i][j] # None => results[i][j] = True
    THEN True
    ELSE IF \E j \in Peers(i) : results[i][j] # None /\ results[i][j] = False
    THEN False
    ELSE None

\* Python truthiness of a result
Truthy(r) == r.tag \in {"True", "url"}

NoResults == [j \in Coordinators |-> None]
NoResponses == [j \in Coordinators |-> NoResponse]
AllPending(i) == [j \in Coordinators |-> IF j = i THEN None ELSE Pending]

ElectInit ==
    /\ alive = [i \in Coordinators |-> FALSE]
    /\ fsm_state = [i \in Coordinators |-> "Initial"]
    /\ pc = [i \in Coordinators |-> "down"]
    /\ results = [i \in Coordinators |-> NoResults]
    /\ failures = 0
    /\ stable = FALSE
    /\ active_gamemaster = [i \in Coordinators |-> NoUrl]
    /\ responses = [i \in Coordinators |-> NoResponses]

\* a coordinator process is started: GamemasterFSM.__init__
start(i) ==
    /\ ~alive[i]
    /\ alive' = [alive EXCEPT ![i] = TRUE]
    /\ fsm_state' = [fsm_state EXCEPT ![i] = "Initial"]
    /\ pc' = [pc EXCEPT ![i] = "step"]
    /\ results' = [results EXCEPT ![i] = NoResults]
    /\ active_gamemaster' = [active_gamemaster EXCEPT ![i] = NoUrl]
    /\ responses' = [responses EXCEPT ![i] = NoResponses]
    /\ UNCHANGED <<failures, stable>>
    /\ UNCHANGED gameVars

\* a coordinator process is killed; fsm_state[i] keeps the state it died in
\* until the process is started again
crash(i) ==
    /\ alive[i]
    /\ ~stable
    /\ failures < MaxFailures
    /\ failures' = failures + 1
    /\ alive' = [alive EXCEPT ![i] = FALSE]
    /\ pc' = [pc EXCEPT ![i] = "down"]
    /\ results' = [results EXCEPT ![i] = NoResults]
    /\ responses' = [responses EXCEPT ![i] = NoResponses]
    /\ UNCHANGED <<fsm_state, stable, active_gamemaster>>
    /\ UNCHANGED gameVars

\* from here on nothing fails any more
settle ==
    /\ ~stable
    /\ stable' = TRUE
    /\ UNCHANGED <<alive, fsm_state, pc, results, failures, active_gamemaster, responses>>
    /\ UNCHANGED gameVars

\* GamemasterFSM.step in Initial, and one round of its loop in Intent:
\* get_gamemaster sends GET /gamemaster to every peer
step_get_gamemaster(i) ==
    /\ alive[i]
    /\ pc[i] = "step"
    /\ fsm_state[i] \in {"Initial", "Intent"}
    /\ pc' = [pc EXCEPT ![i] = "get_gamemaster"]
    /\ results' = [results EXCEPT ![i] = AllPending(i)]
    /\ responses' = [responses EXCEPT ![i] = NoResponses]
    /\ UNCHANGED <<alive, fsm_state, failures, stable, active_gamemaster>>
    /\ UNCHANGED gameVars

\* main() had a coordinator in state Gamemaster given the role up
main_serve_end(i) ==
    /\ alive[i]
    /\ pc[i] = "step"
    /\ fsm_state[i] = "Gamemaster"
    /\ fsm_state' = [fsm_state EXCEPT ![i] = "End"]
    /\ UNCHANGED <<alive, pc, results, failures, stable, active_gamemaster, responses>>
    /\ UNCHANGED gameVars

\* main(): a coordinator whose step() left it in state Gamemaster serves the
\* units on port 8001 and awaits a Future that is never set
main_serve(i) ==
    /\ alive[i]
    /\ pc[i] = "step"
    /\ fsm_state[i] = "Gamemaster"
    /\ pc' = [pc EXCEPT ![i] = "serve"]
    /\ UNCHANGED <<alive, fsm_state, results, failures, stable, active_gamemaster, responses>>
    /\ UNCHANGED gameVars

\* peer j answers (or refuses, being down) the probe of coordinator i
http_gamemaster(i, j) ==
    /\ alive[i]
    /\ pc[i] = "get_gamemaster"
    /\ results[i][j] = Pending
    /\ LET response == IF alive[j]
                       THEN process_request("/gamemaster", NoHeaders, game_params(j))
                       ELSE NoResponse
       IN  /\ results' = [results EXCEPT ![i][j] = _get_is_gamemaster(i, j, response)]
           /\ responses' = [responses EXCEPT ![i][j] = response]
    /\ UNCHANGED <<alive, fsm_state, pc, failures, stable, active_gamemaster>>
    /\ UNCHANGED gameVars

\* a request of coordinator i to the live peer j runs into the timeout
http_timeout(i, j) ==
    /\ alive[i]
    /\ alive[j]
    /\ pc[i] \in {"get_gamemaster", "request_gamemaster"}
    /\ results[i][j] = Pending
    /\ ~stable
    /\ failures < MaxFailures
    /\ failures' = failures + 1
    /\ results' = [results EXCEPT ![i][j] =
                      IF pc[i] = "get_gamemaster"
                      THEN _get_is_gamemaster(i, j, NoResponse)
                      ELSE _request_gamemaster(NoResponse)]
    /\ responses' = [responses EXCEPT ![i][j] = NoResponse]
    /\ UNCHANGED <<alive, fsm_state, pc, stable, active_gamemaster>>
    /\ UNCHANGED gameVars

\* step() resumes with the result of get_gamemaster
step_got_gamemaster(i) ==
    /\ alive[i]
    /\ pc[i] = "get_gamemaster"
    /\ \A j \in Peers(i) : results[i][j] # Pending
    /\ IF Truthy(get_gamemaster(i))
       THEN /\ fsm_state' = [fsm_state EXCEPT ![i] = "Intent"]
            /\ pc' = [pc EXCEPT ![i] = "step"]
            /\ results' = [results EXCEPT ![i] = NoResults]
            /\ active_gamemaster' = [active_gamemaster EXCEPT ![i] = get_gamemaster(i).url]
       ELSE /\ pc' = [pc EXCEPT ![i] = "request_gamemaster"]
            /\ results' = [results EXCEPT ![i] = AllPending(i)]
            /\ UNCHANGED <<fsm_state, active_gamemaster>>
    /\ responses' = [responses EXCEPT ![i] = NoResponses]
    /\ UNCHANGED <<alive, failures, stable>>
    /\ UNCHANGED gameVars

\* peer j answers (or refuses, being down) the request of coordinator i
http_request_gamemaster(i, j) ==
    /\ alive[i]
    /\ pc[i] = "request_gamemaster"
    /\ results[i][j] = Pending
    /\ LET response == IF alive[j]
                       THEN process_request("/request_gamemaster", NoHeaders, game_params(j))
                       ELSE NoResponse
       IN  /\ results' = [results EXCEPT ![i][j] = _request_gamemaster(response)]
           /\ responses' = [responses EXCEPT ![i][j] = response]
    /\ UNCHANGED <<alive, fsm_state, pc, failures, stable, active_gamemaster>>
    /\ UNCHANGED gameVars

\* step() resumes with the result of request_gamemaster
step_requested_gamemaster(i) ==
    /\ alive[i]
    /\ pc[i] = "request_gamemaster"
    /\ \A j \in Peers(i) : results[i][j] # Pending
    /\ IF Truthy(request_gamemaster(i))
       THEN /\ fsm_state' = [fsm_state EXCEPT ![i] = "Gamemaster"]
            /\ active_gamemaster' = [active_gamemaster EXCEPT ![i] = i]
       ELSE UNCHANGED <<fsm_state, active_gamemaster>>
    /\ pc' = [pc EXCEPT ![i] = "step"]
    /\ results' = [results EXCEPT ![i] = NoResults]
    /\ responses' = [responses EXCEPT ![i] = NoResponses]
    /\ UNCHANGED <<alive, failures, stable>>
    /\ UNCHANGED gameVars

\* what coordinator i's own main loop does next
step(i) ==
    \/ step_get_gamemaster(i)
    \/ step_got_gamemaster(i)
    \/ step_requested_gamemaster(i)
    \/ main_serve(i)

\* the answers coordinator i's requests receive
http(i) ==
    \E j \in Peers(i) : http_gamemaster(i, j) \/ http_request_gamemaster(i, j)

ElectNext ==
    \/ \E i \in Coordinators : start(i)
    \/ \E i \in Coordinators : crash(i)
    \/ settle
    \/ \E i \in Coordinators : step(i)
    \/ \E i \in Coordinators : http(i)
    \/ \E i \in Coordinators : \E j \in Peers(i) : http_timeout(i, j)

(***************************************************************************)
(* PART II - the Game engine.  Every method of class Game is an operator   *)
(* from a Game record g to the set of records it can leave: the choices of *)
(* random.choice / random.shuffle and of the clock give the set more than  *)
(* one element.  Beside the fields of Game a record carries the exception  *)
(* raised so far (err), the commands sent so far (out), the unit ids of    *)
(* the "Event: Unit Unregister" lines logged so far (log) and whether the  *)
(* bound MaxTasks was exceeded (overflow).                                 *)
(***************************************************************************)
Units == 1 .. NumUnits
MultiplayerUnits == 1 .. NumMultiplayerUnits

\* correct / wrong / correct_units[p] = None
NoUnit == 0

Range(s) == {s[k] : k \in 1 .. Len(s)}

\* list.remove(x): the list without its first x
Remove(s, x) ==
    LET k == CHOOSE n \in 1 .. Len(s) : s[n] = x /\ \A m \in 1 .. (n - 1) : s[m] # x
    IN  [n \in 1 .. (Len(s) - 1) |-> IF n < k THEN s[n] ELSE s[n + 1]]

\* the orders random.shuffle can leave the elements of S in
RECURSIVE Shuffles(_)
Shuffles(S) ==
    IF S = {} THEN {<<>>}
    ELSE UNION {{<<x>> \o s : s \in Shuffles(S \ {x})} : x \in S}

\* Unit.__init__: the object handler() builds for a REGISTER message
Unit(unit_id) == [unit_id |-> unit_id, button_pressed |-> FALSE]

\* dict ACTIVE: its keys, len(), ACTIVE[unit_id], ACTIVE[unit_id] = unit (and
\* what it would be if the object stored under the key stayed), pop
keys(A) == {o.unit_id : o \in A}
len(A) == Cardinality(keys(A))
get(A, unit_id) == CHOOSE o \in A : o.unit_id = unit_id
setitem_keep(A, unit_id, unit) == A \cup {unit}
setitem(A, unit_id, unit) == {o \in A : o.unit_id # unit_id} \cup {unit}
pop(A, unit_id) == {o \in A : o.unit_id # unit_id}

\* The elements of pressed_units are Unit objects, compared by identity:
\* Obj(u) is the object ACTIVE holds for u, Stale(u) an object of unit id u
\* that ACTIVE no longer holds (its unit was unregistered or registered anew).
Obj(unit_id) == [unit_id |-> unit_id, stale |-> FALSE]
Stale(unit_id) == [unit_id |-> unit_id, stale |-> TRUE]

\* the object ACTIVE held for unit_id leaves ACTIVE
Retire(P, unit_id) ==
    IF Obj(unit_id) \in P THEN (P \ {Obj(unit_id)}) \cup {Stale(unit_id)} ELSE P

\* values of the control_task slot and elements of tasks
NoTask == [kind |-> "None", pc |-> "", player |-> 0, spans |-> FALSE]
Finished == [kind |-> "Finished", pc |-> "", player |-> 0, spans |-> FALSE]
Live(t) == t.kind \notin {"None", "Finished"}

\* asyncio.create_task(self._control_<kind>(player)): the coroutine has not
\* run yet
create_task(kind, player) == [kind |-> kind, pc |-> "start", player |-> player, spans |-> FALSE]

\* the Game object as a record
Game ==
    [state |-> state, ACTIVE |-> ACTIVE, previous_correct |-> previous_correct,
     unit_list |-> unit_list, correct |-> correct, wrong |-> wrong,
     pressed_units |-> pressed_units, last_press_time |-> last_press_time,
     player_scores |-> player_scores, player_unit_queue |-> player_unit_queue,
     correct_units |-> correct_units, control_task |-> control_task,
     tasks |-> tasks, hung |-> hung,
     partition |-> partition, counted |-> counted,
     err |-> "", out |-> <<>>, log |-> <<>>, overflow |-> FALSE]

\* Game.__init__
NewGame ==
    [state |-> "NoUnits", ACTIVE |-> {}, previous_correct |-> {},
     unit_list |-> <<>>, correct |-> NoUnit, wrong |-> NoUnit,
     pressed_units |-> {}, last_press_time |-> "None",
     player_scores |-> <<0, 0>>, player_unit_queue |-> <<<<>>, <<>>>>,
     correct_units |-> <<NoUnit, NoUnit>>, control_task |-> NoTask,
     tasks |-> <<>>, hung |-> FALSE,
     partition |-> <<{}, {}>>, counted |-> <<{}, {}>>,
     err |-> "", out |-> <<>>, log |-> <<>>, overflow |-> FALSE]

raise(g, e) == [g EXCEPT !.err = e]

\* S; F: the statements F run on every outcome of S that raised nothing
Then(S, F(_)) == UNION {IF h.err # "" THEN {h} ELSE F(h) : h \in S}

\* random.randint(1, 6): the lose sounds
NumLoseSounds == 6

\* Unit.send through one of the command methods of Unit: margin says whether
\* `at` is now + 0.1 s + latency (TRUE) or datetime.now() (FALSE), latency
\* whose ws.latency is added (the largest of them), sound the index of the
\* lose sound (0: the command is no lose), stale whether the Unit object
\* the command is queued on is one ACTIVE no longer holds
send(g, to, cmd, margin) ==
    [g EXCEPT !.out = Append(@, [to |-> to, cmd |-> cmd, margin |-> margin,
                                 latency |-> IF margin THEN {Obj(to)} ELSE {},
                                 sound |-> 0, stale |-> FALSE])]

\* for unit in S: unit.lose(f"sounds/lose/lose{lose_sound}.wav",
\* datetime.now() + 0.1 s + latency), latency the largest ws.latency of the
\* Unit objects of P
RECURSIVE lose(_, _, _, _)
lose(g, S, lose_sound, P) ==
    IF S = {} THEN g
    ELSE LET o == CHOOSE x \in S : TRUE
             g1 == [g EXCEPT !.out = Append(@, [to |-> o.unit_id, cmd |-> "lose",
                                                margin |-> TRUE, latency |-> P,
                                                sound |-> lose_sound, stale |-> o.stale])]
         IN  lose(g1, S \ {o}, lose_sound, P)

\* for unit in ...: unit.<cmd>(at)
RECURSIVE send_each(_, _, _, _)
send_each(g, S, cmd, margin) ==
    IF S = {} THEN g
    ELSE LET u == CHOOSE x \in S : \A y \in S : x <= y
         IN  send_each(send(g, u, cmd, margin), S \ {u}, cmd, margin)

\* self.ACTIVE[unit_id].<cmd>(at): KeyError when unit_id is no key
send_ACTIVE(g, unit_id, cmd, margin) ==
    IF unit_id \in keys(g.ACTIVE) THEN send(g, unit_id, cmd, margin)
    ELSE raise(g, "KeyError")

\* self._control_task.cancel()
cancel(g) ==
    IF g.control_task = NoTask THEN raise(g, "AttributeError")
    ELSE [g EXCEPT !.control_task = IF Live(@) THEN Finished ELSE @]

\* self._control_task = asyncio.create_task(...): a live task the slot held
\* and that is not the running one lives on unreferenced
set_control_task(g, t) ==
    IF Live(g.control_task) /\ g.control_task.pc # "running"
    THEN IF Len(g.tasks) >= MaxTasks THEN [g EXCEPT !.overflow = TRUE]
         ELSE [g EXCEPT !.tasks = Append(@, g.control_task), !.control_task = t]
    ELSE [g EXCEPT !.control_task = t]

\* assert (self._control_task is not None); self._control_task.cancel();
\* self._control_task = asyncio.create_task(self._control_<kind>());
\* self.state = <next_state>
replace_task(g, kind, next_state) ==
    IF g.control_task = NoTask THEN raise(g, "AssertionError")
    ELSE [set_control_task(cancel(g), create_task(kind, 0)) EXCEPT !.state = next_state]

\* Game._next_correct
_next_correct(g) ==
    IF g.unit_list # <<>>
    THEN LET g1 == [g EXCEPT !.correct = Head(g.unit_list), !.unit_list = Tail(@)]
         IN  {send_ACTIVE(g1, g1.correct, "correct", TRUE)}
    ELSE {[g EXCEPT !.correct = NoUnit]}

\* Game._next_wrong
_next_wrong(g) ==
    IF g.unit_list # <<>>
    THEN LET g1 == IF g.wrong # NoUnit /\ g.wrong # g.correct
                   THEN send_ACTIVE(g, g.wrong, "stop_all", FALSE)
                   ELSE g
         IN  Then({g1}, LAMBDA h :
                 {send_ACTIVE([h EXCEPT !.wrong = w], w, "wrong", TRUE) :
                     w \in Range(h.unit_list)})
    ELSE {[g EXCEPT !.wrong = NoUnit]}

\* Game._register_NoUnits
_register_NoUnits(g) ==
    IF g.control_task # NoTask THEN {raise(g, "AssertionError")}
    ELSE {[set_control_task(g, create_task("PreGameSingle", 0)) EXCEPT
              !.state = "PreGameSingle"]}

\* Game._register_PreGameSingle
_register_PreGameSingle(g) ==
    IF len(g.ACTIVE) > 1 THEN {replace_task(g, "PreGameMultiple", "PreGameMultiple")}
    ELSE IF len(g.ACTIVE) = 1 THEN {replace_task(g, "PreGameSingle", "PreGameSingle")}
    ELSE {g}

\* Game.register(unit_id, Unit(websocket, unit_id))
register(g, unit_id) ==
    LET g1 == [g EXCEPT !.ACTIVE = setitem(@, unit_id, Unit(unit_id)),
                        !.pressed_units = Retire(@, unit_id)]
        S == IF g1.state = "NoUnits" THEN _register_NoUnits(g1)
             ELSE IF g1.state = "PreGameSingle" THEN _register_PreGameSingle(g1)
             ELSE {g1}
    IN  Then(S, LAMBDA h : {send(h, unit_id, "stop_all", TRUE)})

\* Game.unregister, up to the choice of the next state (l.261-271)
unregister_targets(g, unit_id) ==
    LET g1 == [g EXCEPT !.ACTIVE = pop(@, unit_id),
                        !.pressed_units = Retire(@, unit_id),
                        !.previous_correct = @ \ {unit_id}]
        S == IF unit_id \in Range(g1.unit_list)
             THEN {[g1 EXCEPT !.unit_list = Remove(@, unit_id)]}
             ELSE IF unit_id = g1.correct
             THEN Then(_next_correct(g1), _next_wrong)
             ELSE {g1}
    IN  Then(S, LAMBDA h : IF unit_id = h.wrong THEN _next_wrong(h) ELSE {h})

\* Game.unregister, the choice of the next state (l.273-292)
unregister_state(g) ==
    IF len(g.ACTIVE) = 0
    THEN IF g.control_task = NoTask THEN raise(g, "AssertionError")
         ELSE [cancel(g) EXCEPT !.control_task = NoTask, !.state = "NoUnits"]
    ELSE IF g.state = "PreGameMultiple" /\ len(g.ACTIVE) = 1
    THEN replace_task(g, "PreGameSingle", "PreGameSingle")
    ELSE IF g.state = "Playing" /\ len(g.ACTIVE) = 1
    THEN replace_task(g, "Win", "Win")
    ELSE g

\* Game.unregister
unregister(g, unit_id) ==
    Then(unregister_targets([g EXCEPT !.log = Append(@, unit_id)], unit_id),
         LAMBDA h : {unregister_state(h)})

\* Game._setup_game
_setup_game(g) == {[g EXCEPT !.unit_list = s] : s \in Shuffles(keys(g.ACTIVE))}

\* Game._reset_game
_reset_game(g) ==
    LET g1 == [send_each(g, keys(g.ACTIVE), "stop_all", FALSE) EXCEPT
                  !.previous_correct = {},
                  !.unit_list = <<>>,
                  !.player_unit_queue = <<<<>>, <<>>>>,
                  !.correct = NoUnit,
                  !.wrong = NoUnit,
                  !.pressed_units = {}]
    IN  IF g1.control_task # NoTask THEN cancel(g1) ELSE g1

\* asyncio.create_task(transition_to_multiplayer()): the task is held by no
\* field of Game
create_transition(g) ==
    IF Len(g.tasks) >= MaxTasks THEN [g EXCEPT !.overflow = TRUE]
    ELSE [g EXCEPT !.tasks = Append(@, create_task("transition_to_multiplayer", 0))]

\* Game._start_multiplayer
_start_multiplayer(g) ==
    LET g1 == [_reset_game(g) EXCEPT !.state = "PreGameMultiplayer",
                                     !.partition = <<{}, {}>>,
                                     !.counted = <<{}, {}>>]
        g2 == IF g1.control_task # NoTask THEN cancel(g1) ELSE g1
    IN  {create_transition(g2)}

\* the sleeps of the live tasks that began before this call of _is_fast_press
mark_spans(t) == IF Live(t) /\ t.pc \in {"sleep", "sleep2"} THEN [t EXCEPT !.spans = TRUE] ELSE t

\* Game._is_fast_press: the records [g, fast] it can leave.  last_press_time
\* is "recent" while less than press_threshold may have passed since it was
\* set, "old" once a sleep of 4 s or more has begun and ended since.
_is_fast_press(g) ==
    LET g1 == [g EXCEPT !.last_press_time = "recent",
                        !.control_task = mark_spans(@),
                        !.tasks = [k \in 1 .. Len(@) |-> mark_spans(@[k])]]
    IN  IF g.last_press_time = "recent"
        THEN {[g |-> g1, fast |-> TRUE], [g |-> g1, fast |-> FALSE]}
        ELSE {[g |-> g1, fast |-> FALSE]}

\* Game._button_pressed_PreGameSingle
_button_pressed_PreGameSingle(g, unit_id) ==
    {replace_task(send(g, unit_id, "win", TRUE), "Win", "Win")}

\* Game._button_pressed_PreGameMultiple
_button_pressed_PreGameMultiple(g, unit_id) ==
    IF unit_id = g.correct
    THEN LET g1 == [send(g, unit_id, "correct_pressed", TRUE) EXCEPT
                       !.previous_correct = @ \cup {unit_id}]
             S1 == {[h EXCEPT !.unit_list = Remove(@, unit_id)] : h \in _setup_game(g1)}
             S2 == Then(Then(S1, _next_correct), _next_wrong)
         IN  Then(S2, LAMBDA h : {replace_task(h, "Playing", "Playing")})
    ELSE {g}

\* Game._button_pressed_Playing
_button_pressed_Playing(g, unit_id) ==
    IF unit_id \in g.previous_correct
    THEN {send(g, unit_id, "correct_pressed", TRUE)}
    ELSE IF unit_id = g.wrong
    THEN IF g.pressed_units = {} THEN {raise(g, "ValueError")}
         ELSE {replace_task(lose(g, {Obj(u) : u \in keys(g.ACTIVE)}, lose_sound,
                                 g.pressed_units), "Lose", "Lose") :
                  lose_sound \in 1 .. NumLoseSounds}
    ELSE IF unit_id = g.correct
    THEN IF g.unit_list = <<>>
         THEN {replace_task(g, "Win", "Win")}
         ELSE LET g1 == [send(g, unit_id, "correct_pressed", TRUE) EXCEPT
                            !.previous_correct = @ \cup {unit_id}]
              IN  Then(_next_correct(g1), _next_wrong)
    ELSE {g}

\* Game._button_pressed_PlayingAllReleased
_button_pressed_PlayingAllReleased(g, unit_id) ==
    IF unit_id \in g.previous_correct
    THEN {[send(g, unit_id, "correct_pressed", TRUE) EXCEPT !.state = "Playing"]}
    ELSE IF unit_id = g.wrong
    THEN IF g.pressed_units = {} THEN {raise(g, "ValueError")}
         ELSE {replace_task(lose(g, g.pressed_units, lose_sound, g.pressed_units),
                            "Lose", "Lose") :
                  lose_sound \in 1 .. NumLoseSounds}
    ELSE IF unit_id = g.correct
    THEN LET g1 == [g EXCEPT !.previous_correct = @ \cup {unit_id}]
         IN  IF g1.unit_list = <<>>
             THEN {replace_task(g1, "Win", "Win")}
             ELSE Then(Then(_next_correct(send(g1, unit_id, "correct_pressed", TRUE)),
                            _next_wrong),
                       LAMBDA h : {replace_task(h, "Playing", "Playing")})
    ELSE {g}

\* Game._button_pressed_WaitRelease
_button_pressed_WaitRelease(g, unit_id) == {send(g, unit_id, "start_button_led", TRUE)}

\* Game._next_correct_multi
_next_correct_multi(g, player) ==
    IF g.player_unit_queue[player] # <<>>
    THEN LET correct_unit_id == Head(g.player_unit_queue[player])
             g1 == [g EXCEPT !.player_unit_queue[player] = Tail(@),
                             !.correct_units[player] = correct_unit_id]
         IN  Then({send_ACTIVE(g1, correct_unit_id, "start_button_led", FALSE)},
                  LAMBDA h : {send_ACTIVE(h, correct_unit_id, "start_matrix", FALSE)})
    ELSE {g}

\* Game._button_pressed_PlayingMultiplayer, once the player is known
pressed_by_player(g, unit_id, player) ==
    LET g1 == [send([g EXCEPT !.player_scores[player] = @ + 1],
                    unit_id, "correct_pressed_multiplayer", TRUE) EXCEPT
                  !.previous_correct = @ \cup {unit_id},
                  !.counted[player] = @ \cup ({unit_id} \cap g.partition[player])]
    IN  Then(_next_correct_multi(g1, player), LAMBDA h :
            LET h1 == IF h.control_task # NoTask THEN cancel(h) ELSE h
            IN  IF h1.player_scores[player] >= len(h1.ACTIVE) \div 2
                   /\ h1.state # "EndMultiplayer"
                THEN {set_control_task([h1 EXCEPT !.state = "EndMultiplayer"],
                                       create_task("EndMultiplayer", player))}
                ELSE {set_control_task(h1, create_task("PlayingMultiplayer", 0))})

\* Game._button_pressed_PlayingMultiplayer
_button_pressed_PlayingMultiplayer(g, unit_id) ==
    IF unit_id = g.correct_units[1] THEN pressed_by_player(g, unit_id, 1)
    ELSE IF unit_id = g.correct_units[2] THEN pressed_by_player(g, unit_id, 2)
    ELSE {g}

\* self._button_pressed_callbacks[self.state](unit), when the state is a key
_button_pressed_callbacks(g, unit_id) ==
    CASE g.state = "PreGameSingle" -> _button_pressed_PreGameSingle(g, unit_id)
      [] g.state = "PreGameMultiple" -> _button_pressed_PreGameMultiple(g, unit_id)
      [] g.state = "Playing" -> _button_pressed_Playing(g, unit_id)
      [] g.state = "PlayingAllReleased" -> _button_pressed_PlayingAllReleased(g, unit_id)
      [] g.state = "WaitRelease" -> _button_pressed_WaitRelease(g, unit_id)
      [] g.state \in {"PreGameMultiplayer", "PlayingMultiplayer"} ->
            _button_pressed_PlayingMultiplayer(g, unit_id)
      [] OTHER -> {g}

\* Game.button_pressed after the fast-press check (l.222-226)
button_pressed_unit(g, unit_id) ==
    LET unit == [get(g.ACTIVE, unit_id) EXCEPT !.button_pressed = TRUE]
        g1 == [g EXCEPT !.ACTIVE = setitem(@, unit_id, unit),
                        !.pressed_units = @ \cup {Obj(unit_id)}]
    IN  _button_pressed_callbacks(g1, unit_id)

\* button_pressed had it not begun with the test for Timeout (l.208-210)
button_pressed_untested(g, unit_id) ==
    IF unit_id \notin keys(g.ACTIVE) THEN {g}
    ELSE IF unit_id = g.correct /\ g.state \in {"Playing", "PlayingAllReleased"}
    THEN UNION {IF r.fast THEN _start_multiplayer(r.g) ELSE button_pressed_unit(r.g, unit_id) :
                   r \in _is_fast_press(g)}
    ELSE button_pressed_unit(g, unit_id)

\* Game.button_pressed
button_pressed(g, unit_id) ==
    IF g.state = "Timeout" THEN {g}
    ELSE IF unit_id \notin keys(g.ACTIVE) THEN {g}
    ELSE IF unit_id = g.correct /\ g.state \in {"Playing", "PlayingAllReleased"}
    THEN UNION {IF r.fast THEN _start_multiplayer(r.g) ELSE button_pressed_unit(r.g, unit_id) :
                   r \in _is_fast_press(g)}
    ELSE button_pressed_unit(g, unit_id)

\* Game._button_released_Playing
_button_released_Playing(g, unit_id) ==
    IF g.pressed_units = {}
    THEN {replace_task(g, "PlayingAllReleased", "PlayingAllReleased")}
    ELSE {g}

\* Game._button_released_WaitRelease
_button_released_WaitRelease(g, unit_id) ==
    LET g1 == [send(g, unit_id, "stop_all", TRUE) EXCEPT !.previous_correct = @ \ {unit_id}]
    IN  IF g1.pressed_units = {}
        THEN IF len(g1.ACTIVE) > 1
             THEN {replace_task(g1, "PreGameMultiple", "PreGameMultiple")}
             ELSE IF len(g1.ACTIVE) = 1
             THEN {replace_task(g1, "PreGameSingle", "PreGameSingle")}
             ELSE {g1}
        ELSE {g1}

\* self._button_released_callbacks[self.state](unit), when the state is a key
_button_released_callbacks(g, unit_id) ==
    CASE g.state = "Playing" -> _button_released_Playing(g, unit_id)
      [] g.state = "WaitRelease" -> _button_released_WaitRelease(g, unit_id)
      [] OTHER -> {g}

\* Game.button_released
button_released(g, unit_id) ==
    IF g.state = "Timeout" THEN {g}
    ELSE IF unit_id \notin keys(g.ACTIVE) THEN {g}
    ELSE LET unit == [get(g.ACTIVE, unit_id) EXCEPT !.button_pressed = FALSE]
             g1 == [g EXCEPT !.ACTIVE = setitem(@, unit_id, unit),
                             !.pressed_units = @ \ {Obj(unit_id)}]
         IN  _button_released_callbacks(g1, unit_id)

\* Game._setup_multiplayer_game
_setup_multiplayer_game(g) ==
    LET g1 == [send_each(g, keys(g.ACTIVE), "stop_all", FALSE) EXCEPT
                  !.previous_correct = {},
                  !.player_scores = <<0, 0>>]
        midpoint == len(g1.ACTIVE) \div 2
        S == {[g1 EXCEPT !.player_unit_queue =
                  <<SubSeq(units, 1, midpoint), SubSeq(units, midpoint + 1, Len(units))>>,
                         !.partition =
                  <<Range(SubSeq(units, 1, midpoint)),
                    Range(SubSeq(units, midpoint + 1, Len(units)))>>,
                         !.counted = <<{}, {}>>] :
                 units \in Shuffles(keys(g1.ACTIVE))}
    IN  Then(Then(S, LAMBDA h : _next_correct_multi(h, 1)),
             LAMBDA h : _next_correct_multi(h, 2))

\* the statements of transition_to_multiplayer after its sleep (l.633-635)
transition_to_multiplayer(g) ==
    Then(_setup_multiplayer_game(g),
         LAMBDA h : {set_control_task(h, create_task("PlayingMultiplayer", 0))})

\* if len(self.ACTIVE) > 1: ... elif len(self.ACTIVE) == 1: ... (the end of
\* _control_Timeout, _control_Lose and _control_Win)
back_to_PreGame(g) ==
    IF len(g.ACTIVE) > 1 THEN replace_task(g, "PreGameMultiple", "PreGameMultiple")
    ELSE IF len(g.ACTIVE) = 1 THEN replace_task(g, "PreGameSingle", "PreGameSingle")
    ELSE g

\* Game._control_PreGameSingle
_control_PreGameSingle(g) ==
    LET g1 == IF g.correct # NoUnit THEN send_ACTIVE(g, g.correct, "stop_all", TRUE) ELSE g
    IN  Then({g1}, LAMBDA h :
            IF keys(h.ACTIVE) = {} THEN {raise(h, "IndexError")}
            ELSE {send([h EXCEPT !.correct = c], c, "correct", TRUE) : c \in keys(h.ACTIVE)})

\* one round of the loop of Game._control_PreGameMultiple, up to its sleep;
\* the inner while never ends when the only key is the current correct
_control_PreGameMultiple(g) ==
    LET g1 == IF g.correct # NoUnit THEN send_ACTIVE(g, g.correct, "stop_all", TRUE) ELSE g
    IN  Then({g1}, LAMBDA h :
            IF keys(h.ACTIVE) = {} THEN {raise(h, "IndexError")}
            ELSE IF keys(h.ACTIVE) = {h.correct} THEN {[h EXCEPT !.hung = TRUE]}
            ELSE {send([h EXCEPT !.correct = next_unit], next_unit, "correct", TRUE) :
                     next_unit \in keys(h.ACTIVE) \ {h.correct}})

\* Game._control_PlayingAllReleased and Game._control_PlayingMultiplayer after
\* their sleep
_control_to_Timeout(g) ==
    LET g1 == IF g.control_task # NoTask THEN cancel(g) ELSE g
    IN  [set_control_task(g1, create_task("Timeout", 0)) EXCEPT !.state = "Timeout"]

\* the end of the Timeout task had it waited in WaitRelease for the buttons
\* that are still held
_control_Timeout_wait(g) ==
    LET g1 == send_each(g, keys(g.ACTIVE), "stop_all", FALSE)
    IN  IF g1.pressed_units = {} THEN back_to_PreGame(g1)
        ELSE [g1 EXCEPT !.state = "WaitRelease"]

\* Game._control_Timeout after its sleep
_control_Timeout(g) ==
    LET g1 == send_each(g, keys(g.ACTIVE), "stop_all", FALSE)
    IN  IF g1.pressed_units = {} THEN back_to_PreGame(g1) ELSE g1

\* Game._control_Lose and Game._control_Win after their second sleep
_control_Lose(g) ==
    LET g1 == back_to_PreGame(g)
    IN  IF g1.err = "" /\ len(g.ACTIVE) >= 1 THEN [g1 EXCEPT !.previous_correct = {}] ELSE g1

\* Game._player_win after its sleep
_player_win(g) ==
    LET g1 == _reset_game(send_each(g, keys(g.ACTIVE), "stop_all", FALSE))
    IN  set_control_task([g1 EXCEPT !.state = "PreGameMultiple"],
                         create_task("PreGameMultiple", 0))

\* The statements task t runs from where it is suspended up to its next await
\* or its end: the records [g, next], next naming where it is suspended
\* afterwards ("" when it has ended).
run(g, t) ==
    LET all == keys(g.ACTIVE)
        ends(S) == {[g |-> h, next |-> ""] : h \in S}
        sleeps(S, where) == {[g |-> h, next |-> where] : h \in S}
    IN  CASE t.kind = "PreGameSingle" -> ends(_control_PreGameSingle(g))
          [] t.kind = "PreGameMultiple" -> sleeps(_control_PreGameMultiple(g), "sleep")
          [] t.kind = "Playing" -> ends({g})
          [] t.kind \in {"PlayingAllReleased", "PlayingMultiplayer"} ->
                IF t.pc = "start" THEN sleeps({g}, "sleep")
                ELSE ends({_control_to_Timeout(g)})
          [] t.kind = "Timeout" ->
                IF t.pc = "start" THEN sleeps({send_each(g, all, "lose", FALSE)}, "sleep")
                ELSE ends({_control_Timeout(g)})
          [] t.kind \in {"Lose", "Win"} ->
                IF t.pc = "start"
                THEN sleeps({send_each(g, all, IF t.kind = "Lose" THEN "lose" ELSE "win", FALSE)},
                            "sleep")
                ELSE IF t.pc = "sleep"
                THEN sleeps({send_each(g, all, "stop_all", FALSE)}, "sleep2")
                ELSE ends({_control_Lose(g)})
          [] t.kind = "EndMultiplayer" ->
                IF t.pc = "start" THEN sleeps({send_each(g, all, "player_win", FALSE)}, "sleep")
                ELSE ends({_player_win(g)})
          [] t.kind = "transition_to_multiplayer" ->
                IF t.pc = "start" THEN sleeps({send_each(g, all, "stop_all", FALSE)}, "sleep")
                ELSE ends(transition_to_multiplayer(g))

\* a sleep that began after the last call of _is_fast_press and lasted 4 s
\* or more has ended: the 2 s of press_threshold are over
sleep_over(g, t) ==
    IF t.pc \in {"sleep", "sleep2"} /\ ~t.spans /\ t.kind # "transition_to_multiplayer"
       /\ g.last_press_time = "recent"
    THEN [g EXCEPT !.last_press_time = "old",
                   !.control_task = [@ EXCEPT !.spans = FALSE],
                   !.tasks = [k \in 1 .. Len(@) |-> [@[k] EXCEPT !.spans = FALSE]]]
    ELSE g

\* what the event loop leaves of a step of a task: an exception that escapes
\* the coroutine ends the task and goes no further
after_step(t, r) ==
    IF r.g.err # "" \/ r.next = "" \/ r.g.hung THEN Finished
    ELSE [t EXCEPT !.pc = r.next, !.spans = FALSE]

\* the task the control_task slot holds runs its next step
run_control_task(g) ==
    LET t == g.control_task
        g0 == [sleep_over(g, t) EXCEPT !.control_task.pc = "running"]
    IN  {[r.g EXCEPT !.control_task = IF @.pc = "running" THEN after_step(t, r) ELSE @,
                     !.err = ""] : r \in run(g0, t)}

\* the k-th task beside the slot runs its next step
run_task(g, k) ==
    LET t == g.tasks[k]
        g1 == sleep_over(g, t)
        g0 == [g1 EXCEPT !.tasks = SubSeq(@, 1, k - 1) \o SubSeq(@, k + 1, Len(@))]
    IN  {[r.g EXCEPT !.tasks = IF after_step(t, r) = Finished THEN @
                                ELSE SubSeq(@, 1, k - 1) \o <<after_step(t, r)>>
                                     \o SubSeq(@, k, Len(@)),
                     !.err = ""] : r \in run(g0, t)}

\* handler(), `finally`: game.unregister(unit_id) on every outcome in S; what
\* it raises leaves the handler and goes no further
finally(S, unit_id) ==
    UNION {{[f EXCEPT !.err = ""] : f \in unregister([h EXCEPT !.err = ""], unit_id)} : h \in S}

\* handler(): an exception a Game method raises is caught by `except
\* Exception`, which calls game.unregister(unit_id), and `finally` calls it
\* once more; without an exception the handler goes on to the next message
handler(S, unit_id) ==
    UNION {IF h.err = "" THEN {h} ELSE finally(finally({h}, unit_id), unit_id) : h \in S}

\* handler() on message UNREGISTER: game.unregister(unit_id), close, break
\* and `finally`
handler_UNREGISTER(g, unit_id) ==
    UNION {IF h.err = "" THEN finally({h}, unit_id) ELSE handler({h}, unit_id) :
              h \in unregister(g, unit_id)}

\* handler() when its connection ends: `async for` ends after a normal close
\* and only `finally` runs, or it raises ConnectionClosedError and the
\* `except` clause runs before `finally`
handler_closed(g, unit_id) ==
    finally({g}, unit_id) \cup handler({raise(g, "ConnectionClosedError")}, unit_id)

\* handler() on a message that is not JSON: close(code=1002), return and
\* `finally`
handler_JSONDecodeError(g, unit_id) == finally({g}, unit_id)

\* the ready queue of the event loop is empty: no task waits for its first step
NoneReady(g) ==
    /\ ~(Live(g.control_task) /\ g.control_task.pc = "start")
    /\ \A k \in 1 .. Len(g.tasks) : g.tasks[k].pc # "start"

\* no transition_to_multiplayer among the first k tasks is in its 1 s sleep
NoTransitionBefore(g, k) ==
    \A m \in 1 .. k : g.tasks[m].kind # "transition_to_multiplayer"

GameInit ==
    /\ state = NewGame.state
    /\ ACTIVE = NewGame.ACTIVE
    /\ previous_correct = NewGame.previous_correct
    /\ unit_list = NewGame.unit_list
    /\ correct = NewGame.correct
    /\ wrong = NewGame.wrong
    /\ pressed_units = NewGame.pressed_units
    /\ last_press_time = NewGame.last_press_time
    /\ player_scores = NewGame.player_scores
    /\ player_unit_queue = NewGame.player_unit_queue
    /\ correct_units = NewGame.correct_units
    /\ control_task = NewGame.control_task
    /\ tasks = NewGame.tasks
    /\ hung = NewGame.hung
    /\ partition = NewGame.partition
    /\ counted = NewGame.counted
    /\ older = {}

\* a round of two players lasts from _start_multiplayer until the state is
\* no longer PreGameMultiplayer (nothing sets PlayingMultiplayer)
InMultiplayerRound(g) == g.state = "PreGameMultiplayer"

\* the Game object becomes g; the history of a round ends with the round
Assign(g) ==
    /\ ~g.overflow
    /\ state' = g.state
    /\ ACTIVE' = g.ACTIVE
    /\ previous_correct' = g.previous_correct
    /\ unit_list' = g.unit_list
    /\ correct' = g.correct
    /\ wrong' = g.wrong
    /\ pressed_units' = g.pressed_units
    /\ last_press_time' = g.last_press_time
    /\ player_scores' = g.player_scores
    /\ player_unit_queue' = g.player_unit_queue
    /\ correct_units' = g.correct_units
    /\ control_task' = g.control_task
    /\ tasks' = g.tasks
    /\ hung' = g.hung
    /\ partition' = IF InMultiplayerRound(g) THEN g.partition ELSE NewGame.partition
    /\ counted' = IF InMultiplayerRound(g) THEN g.counted ELSE NewGame.counted
    /\ UNCHANGED electVars

\* the Game object becomes g and no connection is opened or superseded
Becomes(g) == Assign(g) /\ UNCHANGED older

\* handler() receives REGISTER with id unit_id
Register(unit_id) ==
    /\ ~hung
    /\ \E g \in handler(register(Game, unit_id), unit_id) : Becomes(g)

\* the handler of the connection that registered unit_id receives UNREGISTER
\* (a connection has a unit_id only after its REGISTER, l.1050; one
\* connection per unit_id is open, so unit_id is a key of ACTIVE here)
Unregister(unit_id) ==
    /\ ~hung
    /\ unit_id \in keys(ACTIVE)
    /\ \E g \in handler_UNREGISTER(Game, unit_id) : Becomes(g)

\* the connection that registered unit_id ends
ConnectionClosed(unit_id) ==
    /\ ~hung
    /\ unit_id \in keys(ACTIVE)
    /\ \E g \in handler_closed(Game, unit_id) : Becomes(g)

\* handler() receives BUTTON_PRESSED
Press(unit_id) ==
    /\ ~hung
    /\ \E g \in handler(button_pressed(Game, unit_id), unit_id) : Becomes(g)

\* handler() receives BUTTON_RELEASED
Release(unit_id) ==
    /\ ~hung
    /\ \E g \in handler(button_released(Game, unit_id), unit_id) : Becomes(g)

\* every coordinator waits to be started and no unit is connected
Init == ElectInit /\ GameInit

\* BUTTON_PRESSED more than press_threshold after the last press of the
\* correct unit, so that no round of two players begins
SlowPress(unit_id) ==
    /\ Press(unit_id)
    /\ state' # "PreGameMultiplayer"

\* the event loop runs the first step of the task just put into the slot
TaskStart ==
    /\ ~hung
    /\ Live(control_task) /\ control_task.pc = "start"
    /\ \E g \in run_control_task(Game) : Becomes(g)

\* the sleep of the task the slot holds ends
TimerFire ==
    /\ ~hung
    /\ NoneReady(Game)
    /\ Live(control_task) /\ control_task.pc \in {"sleep", "sleep2"}
    /\ NoTransitionBefore(Game, Len(tasks))
    /\ \E g \in run_control_task(Game) : Becomes(g)

\* the event loop runs the first step of a task the slot does not hold
OrphanStart ==
    /\ ~hung
    /\ \E k \in 1 .. Len(tasks) :
          /\ tasks[k].pc = "start"
          /\ \E g \in run_task(Game, k) : Becomes(g)

\* the sleep of a task the slot does not hold ends
OrphanFire ==
    /\ ~hung
    /\ NoneReady(Game)
    /\ \E k \in 1 .. Len(tasks) :
          /\ tasks[k].pc \in {"sleep", "sleep2"}
          /\ NoTransitionBefore(Game, k - 1)
          /\ \E g \in run_task(Game, k) : Becomes(g)

\* the engine with players who never press twice within press_threshold
SingleNext ==
    \/ \E u \in Units : Register(u)
    \/ \E u \in Units : Unregister(u)
    \/ \E u \in Units : ConnectionClosed(u)
    \/ \E u \in Units : SlowPress(u)
    \/ \E u \in Units : Release(u)
    \/ TaskStart
    \/ TimerFire

SpecSingle == Init /\ [][SingleNext]_vars

\* The event loop runs every task that is ready and wakes every task whose
\* sleep is over.
SpecSingleFair ==
    /\ Init
    /\ [][SingleNext]_vars
    /\ WF_vars(TaskStart)
    /\ WF_vars(TimerFire)

\* the engine with any players, on MultiplayerUnits
GameNext ==
    \/ \E u \in MultiplayerUnits : Register(u)
    \/ \E u \in MultiplayerUnits : Unregister(u)
    \/ \E u \in MultiplayerUnits : ConnectionClosed(u)
    \/ \E u \in MultiplayerUnits : Press(u)
    \/ \E u \in MultiplayerUnits : Release(u)
    \/ TaskStart
    \/ TimerFire
    \/ OrphanStart
    \/ OrphanFire

SpecGame == Init /\ [][GameNext]_vars

\* The event loop runs every task that is ready and wakes every task whose
\* sleep is over, the tasks no field refers to included.
SpecGameFair ==
    /\ Init
    /\ [][GameNext]_vars
    /\ WF_vars(TaskStart)
    /\ WF_vars(TimerFire)
    /\ WF_vars(OrphanStart)
    /\ WF_vars(OrphanFire)

\* handler() receives the REGISTER of a unit that is not registered
Arrive(unit_id) ==
    /\ unit_id \notin keys(ACTIVE)
    /\ Register(unit_id)

\* the engine of a venue whose units connect once and stay connected, with
\* any players
VenueNext ==
    \/ \E u \in Units : Arrive(u)
    \/ \E u \in Units : Press(u)
    \/ \E u \in Units : Release(u)
    \/ TaskStart
    \/ TimerFire
    \/ OrphanStart
    \/ OrphanFire

SpecVenue == Init /\ [][VenueNext]_vars

\* the engine of a venue of four units and one player: a unit connects only
\* while no target is lit, and leaves at any time
QuartetNext ==
    \/ \E u \in Quartet : Arrive(u) /\ correct = NoUnit
    \/ \E u \in Quartet : Unregister(u)
    \/ \E u \in Quartet : SlowPress(u)
    \/ TaskStart
    \/ TimerFire

SpecQuartet == Init /\ [][QuartetNext]_vars

\* the handler of a new connection receives REGISTER with the id of a unit
\* whose connection is still open: its Unit replaces the entry of ACTIVE
Reconnect(unit_id) ==
    /\ ~hung
    /\ unit_id \in keys(ACTIVE) \ older
    /\ \E g \in handler(register(Game, unit_id), unit_id) : Assign(g)
    /\ older' = older \cup {unit_id}

\* the older connection of unit_id ends: its handler still holds unit_id
OlderClosed(unit_id) ==
    /\ ~hung
    /\ unit_id \in older
    /\ \E g \in handler_closed(Game, unit_id) : Assign(g)
    /\ older' = older \ {unit_id}

\* the engine with units that connect anew before their connection has
\* ended; a connection sends REGISTER once
ReconnectNext ==
    \/ \E u \in MultiplayerUnits : Arrive(u) /\ u \notin older
    \/ \E u \in MultiplayerUnits : Reconnect(u)
    \/ \E u \in MultiplayerUnits : OlderClosed(u)
    \/ \E u \in MultiplayerUnits : ConnectionClosed(u)
    \/ \E u \in MultiplayerUnits : SlowPress(u)
    \/ \E u \in MultiplayerUnits : Release(u)
    \/ TaskStart
    \/ TimerFire

SpecReconnect == Init /\ [][ReconnectNext]_vars

\* the round of two players is set up and its 15 s inactivity timer is live
InRound ==
    /\ state = "PreGameMultiplayer"
    /\ Live(control_task) /\ control_task.kind = "PlayingMultiplayer"
    /\ \A k \in 1 .. Len(tasks) : tasks[k].kind # "transition_to_multiplayer"

\* the engine of a venue whose units connect once and leave only during a
\* round of two players
RoundNext ==
    \/ VenueNext
    \/ \E u \in Units : InRound /\ Unregister(u)

SpecRound == Init /\ [][RoundNext]_vars

(***************************************************************************)
(* The cluster: the election together with the Game object of one          *)
(* coordinator and the units that connect to it                            *)
(***************************************************************************)
\* the coordinator whose Game object the engine variables are
Host == 1

\* the headers of the opening handshake of a unit (websockets' connect)
WebsocketHeaders == [Upgrade |-> "websocket", Connection |-> "Upgrade"]

\* main(): handler is served on port 8001 while main awaits inside the serve
\* of state Gamemaster
Port8001 == alive[Host] /\ pc[Host] = "serve"

\* main(): handler is served on port 8002 from the start of the process, for
\* the requests process_request hands on to the handshake
Port8002 ==
    /\ alive[Host]
    /\ process_request("/", WebsocketHeaders, game_params(Host)) = Handshake

\* a unit reaches the handler of the Host through one of its two ports
Connected == Port8001 \/ Port8002

\* the Host's process is not killed once units have registered with it
HostKept(i) == i = Host => Game = NewGame

ClusterNext ==
    \/ \E i \in Coordinators : start(i)
    \/ \E i \in Coordinators : crash(i) /\ HostKept(i)
    \/ settle
    \/ \E i \in Coordinators : step(i)
    \/ \E i \in Coordinators : http(i)
    \/ \E i \in Coordinators : \E j \in Peers(i) : http_timeout(i, j)
    \/ \E u \in MultiplayerUnits : Connected /\ Arrive(u)
    \/ \E u \in MultiplayerUnits : Connected /\ Unregister(u)
    \/ TaskStart
    \/ TimerFire

SpecCluster == Init /\ [][ClusterNext]_vars

SpecElect == Init /\ [][ElectNext]_vars

\* The event loop runs every coordinator's step() on, and every HTTP request
\* is answered, refused or timed out within the 1 s client timeout.
SpecElectFair ==
    /\ Init
    /\ [][ElectNext]_vars
    /\ \A i \in Coordinators : WF_vars(step(i))
    /\ \A i \in Coordinators : WF_vars(http(i))

Gamemasters == {i \in Coordinators : alive[i] /\ fsm_state[i] = "Gamemaster"}

\* C1: at every moment at most one coordinator of the cluster is in election
\* state Gamemaster.
C1_AtMostOneGamemaster == Cardinality(Gamemasters) <= 1

\* the active coordinator has died
ActiveDied == \E i \in Coordinators : ~alive[i] /\ fsm_state[i] = "Gamemaster"

\* C2: once the active coordinator has died and nothing fails any more while
\* some coordinator is alive, eventually some alive coordinator is in state
\* Gamemaster.
C2_ElectionRecovery ==
    (ActiveDied /\ stable /\ (\E i \in Coordinators : alive[i])) ~> (Gamemasters # {})

\* C2 witness: the active coordinator was killed and another one took over.
C2_Witness ==
    /\ ActiveDied
    /\ stable
    /\ Gamemasters # {}

(***************************************************************************)
(* The properties of the Game engine                                       *)
(***************************************************************************)
\* the timer-driven activities that are live: the task in the slot, unless it
\* is done or cancelled, and the tasks no reference holds
LiveActivities == (IF Live(control_task) THEN 1 ELSE 0) + Len(tasks)

\* C3: after any sequence of events and timer fires at most one timer-driven
\* activity of the engine is live, so no task is installed in the control_task
\* slot while another one keeps running beside it.
C3_AtMostOneActivity == LiveActivities <= 1

SinglePlayerRound == state \in {"Playing", "PlayingAllReleased"}

\* C4: in Playing and PlayingAllReleased correct is a key of ACTIVE, wrong is
\* None or a key of ACTIVE, and correct is not in previous_correct.
C4_TargetsRegistered ==
    SinglePlayerRound =>
        /\ correct \in keys(ACTIVE)
        /\ wrong = NoUnit \/ wrong \in keys(ACTIVE)
        /\ correct \notin previous_correct

\* C5: in Playing and PlayingAllReleased unit_list, previous_correct,
\* {correct} and {wrong} are pairwise disjoint.
C5_PairwiseDisjoint ==
    SinglePlayerRound =>
        /\ Range(unit_list) \cap previous_correct = {}
        /\ correct \notin Range(unit_list)
        /\ wrong \notin Range(unit_list)
        /\ correct \notin previous_correct
        /\ wrong \notin previous_correct
        /\ correct # NoUnit /\ wrong # NoUnit => correct # wrong

\* C6: between event handlers correct and wrong differ when both are set, and
\* |unit_list| + |previous_correct| + [correct set] + [wrong set] is at most
\* |ACTIVE| + 1.
C6_DistinctAndBounded ==
    /\ correct # NoUnit /\ wrong # NoUnit => correct # wrong
    /\ Len(unit_list) + Cardinality(previous_correct)
          + (IF correct # NoUnit THEN 1 ELSE 0) + (IF wrong # NoUnit THEN 1 ELSE 0)
          <= len(ACTIVE) + 1

\* C7: while the state is Timeout, button_pressed and button_released for any
\* unit leave every field of the engine as it is and send no command.
C7_TimeoutIgnoresButtons ==
    state = "Timeout" =>
        \A u \in Units : button_pressed(Game, u) = {Game} /\ button_released(Game, u) = {Game}

\* a registered unit is held down while the 4 s of Timeout run
C7_Witness ==
    /\ state = "Timeout"
    /\ control_task.kind = "Timeout" /\ control_task.pc = "sleep"
    /\ \E u \in keys(ACTIVE) : Obj(u) \in pressed_units
    /\ \E u \in keys(ACTIVE) : Obj(u) \notin pressed_units

\* what R1 calls the engine-visible state
Visible(g) ==
    [state |-> g.state, ACTIVE |-> g.ACTIVE, correct |-> g.correct, wrong |-> g.wrong,
     unit_list |-> g.unit_list, previous_correct |-> g.previous_correct,
     pressed_units |-> g.pressed_units, control_task |-> g.control_task # NoTask]

\* C8: for a unit_id u that is not registered, register(u) followed at once
\* by unregister(u) leaves the engine-visible state as it was before.
C8_RegisterUnregister ==
    \A u \in Units \ keys(ACTIVE) :
        \A g1 \in register(Game, u) : \A g2 \in unregister(g1, u) :
            Visible(g2) = Visible(Game)

\* the fields R2 and R3 speak of
Logical(g) ==
    [state |-> g.state, correct |-> g.correct, wrong |-> g.wrong,
     unit_list |-> g.unit_list, previous_correct |-> g.previous_correct,
     player_scores |-> g.player_scores, correct_units |-> g.correct_units,
     player_unit_queue |-> g.player_unit_queue]

\* unit_id sent BUTTON_PRESSED and no BUTTON_RELEASED since
Held(unit_id) == unit_id \in keys(ACTIVE) /\ get(ACTIVE, unit_id).button_pressed

\* C9: a button_pressed from a unit that is held, with no release since its
\* last press, changes no field of the engine.
C9_RepeatedPress ==
    \A u \in Units : Held(u) => \A g \in button_pressed(Game, u) : Logical(g) = Logical(Game)

\* C10: ACTIVE holds one session for each registered unit_id, and a register
\* of a unit_id that is a key of ACTIVE puts the new session in the place of
\* the stored one.
C10_OneSessionPerUnit ==
    /\ \A u \in Units : Cardinality({o \in ACTIVE : o.unit_id = u}) <= 1
    /\ \A u \in keys(ACTIVE) : \A g \in register(Game, u) :
          /\ {o \in g.ACTIVE : o.unit_id = u} = {Unit(u)}
          /\ keys(g.ACTIVE) = keys(ACTIVE)
          /\ Cardinality(g.ACTIVE) = Cardinality(ACTIVE)

\* a unit registers again while the session ACTIVE holds for it has its
\* button down: the session stored differs from the new one
C10_Witness ==
    \E u \in keys(ACTIVE) :
        /\ get(ACTIVE, u).button_pressed
        /\ Cardinality(ACTIVE) >= 2
        /\ register(Game, u) # {}

\* what handling one event, or running one step of a live task, can leave
\* of the engine as it is now
Outcomes ==
    UNION {register(Game, u) \cup button_pressed(Game, u) \cup button_released(Game, u) :
              u \in Units}
    \cup UNION {unregister(Game, u) : u \in keys(ACTIVE)}
    \cup (IF Live(control_task) THEN run_control_task(Game) ELSE {})
    \cup UNION {run_task(Game, k) : k \in 1 .. Len(tasks)}

\* C11: every command the engine queues for a unit, from an event handler or
\* from a control task, has a timestamp `at` of at least 100 ms after the
\* time the event or timer fire is handled.
C11_TimestampMargin ==
    \A g \in Outcomes : \A k \in 1 .. Len(g.out) : g.out[k].margin

\* the lose commands among the commands g queued
Loses(g) == {g.out[k] : k \in {n \in 1 .. Len(g.out) : g.out[n].cmd = "lose"}}

\* C12: in Playing and PlayingAllReleased a press on the unit that is wrong
\* leaves the state Lose and queues a lose command on every registered unit,
\* all with one lose sound and one `at`.
C12_WrongPressLoses ==
    SinglePlayerRound /\ wrong \in keys(ACTIVE) =>
        \A g \in button_pressed(Game, wrong) :
            /\ g.state = "Lose"
            /\ \A u \in keys(ACTIVE) : \E c \in Loses(g) : c.to = u /\ ~c.stale
            /\ \A c, d \in Loses(g) :
                  c.sound = d.sound /\ c.margin = d.margin /\ c.latency = d.latency

\* what a press on the correct unit that _is_fast_press does not take for a
\* fast one can leave
CorrectPressed ==
    UNION {button_pressed_unit(r.g, correct) : r \in {q \in _is_fast_press(Game) : ~q.fast}}

\* C13: in Playing and PlayingAllReleased a press on the correct unit that is
\* no fast double-press leaves the state Win when unit_list is empty, and
\* otherwise adds the unit to previous_correct, makes the front of unit_list
\* the correct unit, picks a wrong unit anew and leaves the state Playing.
C13_CorrectPress ==
    SinglePlayerRound /\ correct \in keys(ACTIVE) =>
        \A g \in CorrectPressed :
            IF unit_list = <<>>
            THEN g.state = "Win"
            ELSE /\ g.state = "Playing"
                 /\ g.previous_correct = previous_correct \cup {correct}
                 /\ g.correct = Head(unit_list)
                 /\ g.unit_list = Tail(unit_list)
                 /\ IF g.unit_list = <<>> THEN g.wrong = NoUnit
                    ELSE g.wrong \in Range(g.unit_list)

\* the pre-game state that goes with the number of registered units
ByPopulation(A) ==
    IF len(A) > 1 THEN "PreGameMultiple"
    ELSE IF len(A) = 1 THEN "PreGameSingle"
    ELSE "NoUnits"

\* C14: once the state is Timeout the engine eventually leaves it, whatever
\* presses and releases arrive, and it leaves it for PreGameMultiple when
\* more than one unit is registered and for PreGameSingle when one is.
C14_TimeoutEnds ==
    /\ (state = "Timeout") ~> (state # "Timeout")
    /\ [][state = "Timeout" /\ state' # "Timeout" => state' = ByPopulation(ACTIVE')]_vars

\* a step that leaves Lose or Win leaves it for the pre-game state that goes
\* with the units registered, with previous_correct empty
LoseWinReturn ==
    state \in {"Lose", "Win"} /\ state' \notin {"Lose", "Win"} =>
        /\ state' = ByPopulation(ACTIVE')
        /\ ACTIVE' = {} \/ previous_correct' = {}

\* C15: once the state is Lose or Win the engine eventually returns to the
\* pre-game state (NoUnits when every unit has left), and it returns to
\* PreGameMultiple when more than one unit is registered and to PreGameSingle
\* when one is, with previous_correct empty.
C15_LoseWinEnds ==
    /\ (state \in {"Lose", "Win"}) ~> (state \in {"PreGameMultiple", "PreGameSingle", "NoUnits"})
    /\ [][LoseWinReturn]_vars

\* what a press on the correct unit that _is_fast_press takes for a fast one
\* can leave
FastPressed ==
    UNION {_start_multiplayer(r.g) : r \in {q \in _is_fast_press(Game) : q.fast}}

\* the tasks transition_to_multiplayer whose 1 s sleep runs
Transitions ==
    {k \in 1 .. Len(tasks) :
        tasks[k].kind = "transition_to_multiplayer" /\ tasks[k].pc = "sleep"}

\* C16: a fast press on the correct unit in Playing or PlayingAllReleased
\* leaves the state PreGameMultiplayer, and when the 1 s of the transition
\* end the state is PlayingMultiplayer with _control_PlayingMultiplayer, the
\* 15 s inactivity timer, in the control_task slot.
C16_FastPressStartsMultiplayer ==
    /\ SinglePlayerRound /\ correct \in keys(ACTIVE) =>
           \A g \in FastPressed : g.state = "PreGameMultiplayer"
    /\ state = "PreGameMultiplayer" =>
           \A k \in Transitions : \A g \in run_task(Game, k) :
               /\ g.state = "PlayingMultiplayer"
               /\ g.control_task.kind = "PlayingMultiplayer"

\* the ceiling of n / 2
CeilHalf(n) == (n + 1) \div 2

\* C17: in a round of two players a press on the target of player p leaves
\* the state EndMultiplayer exactly when the score of p has reached the
\* ceiling of |ACTIVE| / 2, and at no smaller score.
C17_WinAtCeilHalf ==
    state \in {"PreGameMultiplayer", "PlayingMultiplayer"} =>
        \A p \in {1, 2} :
            correct_units[p] \in keys(ACTIVE) /\ (p = 2 => correct_units[1] # correct_units[2]) =>
                \A g \in button_pressed(Game, correct_units[p]) :
                    g.state = "EndMultiplayer" <=> g.player_scores[p] >= CeilHalf(len(ACTIVE))

(***************************************************************************)
(* The election seen by a coordinator that starts late                     *)
(***************************************************************************)
\* coordinator i runs, in state Initial and about to probe, while coordinator
\* j is the active one
Newcomer(i, j) ==
    /\ alive[i] /\ fsm_state[i] = "Initial" /\ pc[i] = "step"
    /\ alive[j] /\ fsm_state[j] = "Gamemaster"

\* both coordinators i and j run in state Gamemaster
BothActive(i, j) ==
    /\ alive[i] /\ fsm_state[i] = "Gamemaster"
    /\ alive[j] /\ fsm_state[j] = "Gamemaster"

\* C18: a coordinator i that starts while a coordinator j with a larger
\* priority number is active enters state Intent (unless one of the two dies
\* first) and is never active beside j; once j has died and nothing fails any
\* more, i eventually becomes Gamemaster.
C18_NewcomerOutranks ==
    \A i, j \in Coordinators : priority(i) < priority(j) =>
        /\ Newcomer(i, j) ~> (fsm_state[i] = "Intent" \/ ~alive[i] \/ ~alive[j])
        /\ [](Newcomer(i, j) => []~BothActive(i, j))
        /\ (alive[i] /\ ~alive[j] /\ fsm_state[j] = "Gamemaster" /\ stable)
               ~> (fsm_state[i] = "Gamemaster")

(***************************************************************************)
(* The HTTP answers of a coordinator                                       *)
(***************************************************************************)
\* the paths requested: the three process_request knows and two others
Paths == {"/gamemaster", "/request_gamemaster", "/alive", "/", "/units"}

\* the headers of the requests that do not ask for the websocket upgrade
PlainHeaders ==
    {h \in [Upgrade : UpgradeValues, Connection : ConnectionValues] :
        ~is_websocket_request(h)}

\* the GamemasterFSM of coordinator j in each of the election states
Serving(j) == {[game_params(j) EXCEPT !._state = s] : s \in STATES}

\* the answers to GET /gamemaster and GET /request_gamemaster are the ones
\* the election protocol lists
ElectionAnswers(h, gp) ==
    /\ process_request("/gamemaster", h, gp) =
           [status |-> IF gp._state = "Gamemaster" THEN 302 ELSE 200,
            body |-> gp.model.priority]
    /\ process_request("/request_gamemaster", h, gp).status =
           CASE gp._state \in {"Initial", "End"} -> 200
             [] gp._state = "Intent" -> 409
             [] gp._state = "Gamemaster" -> 302

\* C19 as stated: for every election state of the serving coordinator,
\* GET /gamemaster answers 302 in Gamemaster and 200 otherwise with the
\* priority as body, GET /request_gamemaster answers 200 in Initial and End,
\* 409 in Intent and 302 in Gamemaster, and every other path of a request
\* without the upgrade headers answers 404.
C19_OtherPathsNotFound ==
    \A j \in Coordinators : \A gp \in Serving(j) : \A h \in PlainHeaders :
        /\ ElectionAnswers(h, gp)
        /\ \A path \in Paths \ {"/gamemaster", "/request_gamemaster"} :
               process_request(path, h, gp).status = 404

\* C19, amended: the same answers to GET /gamemaster and GET
\* /request_gamemaster; GET /alive answers 302 in Gamemaster and 200
\* otherwise; every path other than these three, of a request without the
\* upgrade headers, answers 404.
C19_StatusTable ==
    \A j \in Coordinators : \A gp \in Serving(j) : \A h \in PlainHeaders :
        /\ ElectionAnswers(h, gp)
        /\ process_request("/alive", h, gp).status =
               IF gp._state = "Gamemaster" THEN 302 ELSE 200
        /\ \A path \in Paths \ {"/gamemaster", "/request_gamemaster", "/alive"} :
               process_request(path, h, gp).status = 404

\* C19 witness: a coordinator has the answer of the active coordinator to its
\* GET /request_gamemaster, the 302 that counts as a refusal, and an earlier
\* probe has told it who is active.
C19_Witness ==
    \E i \in Coordinators : \E j \in Peers(i) :
        /\ alive[i] /\ pc[i] = "request_gamemaster"
        /\ alive[j] /\ fsm_state[j] = "Gamemaster"
        /\ results[i][j] = False
        /\ process_request("/alive", NoHeaders, game_params(j)).status = 302

(***************************************************************************)
(* The end of a unit connection                                            *)
(***************************************************************************)
\* what the handler of the connection of unit_id can leave when the connection
\* ends: by an UNREGISTER message, by a message that is not JSON, by a close
\* or by a transport error
Ended(unit_id) ==
    handler_UNREGISTER(Game, unit_id)
        \cup handler_JSONDecodeError(Game, unit_id)
        \cup handler_closed(Game, unit_id)

\* how many times Game.unregister(unit_id) was entered
Calls(g, unit_id) == Cardinality({k \in 1 .. Len(g.log) : g.log[k] = unit_id})

\* C20: whichever way the connection of a registered unit ends, the handler
\* invokes Game.unregister for its unit_id exactly once.
C20_UnregisteredOnce ==
    \A unit_id \in keys(ACTIVE) : \A g \in Ended(unit_id) : Calls(g, unit_id) = 1

(***************************************************************************)
(* The engine of a coordinator that is not the active one                  *)
(***************************************************************************)
\* the Host is the active coordinator
HostActive == alive[Host] /\ fsm_state[Host] = "Gamemaster"

\* only the Game of an active coordinator changes
OnlyActiveMutates == ~HostActive => UNCHANGED gameVars

\* C21: the unit events reach the Game of a coordinator only while its
\* election state is Gamemaster: in Initial, Intent and End no step changes
\* a field of its Game.
C21_EngineOnlyWhenActive == [][OnlyActiveMutates]_vars

(***************************************************************************)
(* register and unregister                                                 *)
(***************************************************************************)
\* the first command g.out holds for unit_id is stop_all (Unit.stop_all
\* enqueues the three stop commands)
StoppedFirst(g, unit_id) ==
    LET to_unit == {k \in 1 .. Len(g.out) : g.out[k].to = unit_id}
    IN  /\ to_unit # {}
        /\ \A k \in to_unit : (\A n \in to_unit : k <= n) => g.out[k].cmd = "stop_all"

\* C22: register of a unit in NoUnits leaves state PreGameSingle with the
\* PreGameSingle control task started; register of a second unit in
\* PreGameSingle cancels that task and leaves PreGameMultiple with its control
\* task; register in any other state leaves the state as it was; and in every
\* case the stop commands are the first commands enqueued to the new unit.
C22_Register ==
    \A unit_id \in Units : \A g \in register(Game, unit_id) :
        /\ state = "NoUnits" =>
               /\ g.state = "PreGameSingle"
               /\ g.control_task = create_task("PreGameSingle", 0)
        /\ state = "PreGameSingle" /\ len(ACTIVE) = 1 /\ unit_id \notin keys(ACTIVE) =>
               /\ g.state = "PreGameMultiple"
               /\ g.control_task = create_task("PreGameMultiple", 0)
               /\ g.tasks = tasks
        /\ state \notin {"NoUnits", "PreGameSingle"} => g.state = state
        /\ StoppedFirst(g, unit_id)

\* C23: after unregister(unit_id), if no unit remains the state is NoUnits and
\* the control_task slot is empty; if exactly one unit remains and the state
\* was PreGameMultiple it is PreGameSingle; if exactly one unit remains and
\* the state was Playing it is Win.
C23_UnregisterState ==
    \A unit_id \in Units \cup Quartet : \A g \in unregister(Game, unit_id) :
        /\ len(g.ACTIVE) = 0 => g.state = "NoUnits" /\ g.control_task = NoTask
        /\ len(g.ACTIVE) = 1 /\ state = "PreGameMultiple" => g.state = "PreGameSingle"
        /\ len(g.ACTIVE) = 1 /\ state = "Playing" => g.state = "Win"

\* unregister(unit_id) completes in g, and neither correct nor wrong of g names
\* the removed unit or a unit outside what unit_list held beside it
Repicked(g, unit_id) ==
    LET remaining == Range(unit_list) \ {unit_id}
    IN  /\ g.err = ""
        /\ g.correct # unit_id
        /\ g.wrong # unit_id
        /\ unit_id = correct => g.correct \in remaining \cup {NoUnit}
        /\ g.wrong \in remaining \cup {NoUnit}

\* C24: in every reachable state the unregister of the unit that is correct,
\* and of the unit that is wrong, completes, leaves correct (for the correct
\* unit) and wrong picked from the remaining unit_list, and leaves neither
\* correct nor wrong naming the removed unit.
C24_UnregisterTarget ==
    \A unit_id \in keys(ACTIVE) \cap {correct, wrong} :
        \A g \in unregister(Game, unit_id) : Repicked(g, unit_id)

(***************************************************************************)
(* The start of a round                                                    *)
(***************************************************************************)
\* C25: in PreGameMultiple a press on the correct unit leaves state Playing
\* with the pressed unit in previous_correct, a new correct among the other
\* active units, unit_list holding exactly the active unit ids other than the
\* pressed unit and the new correct, and wrong picked from unit_list (None
\* when it is empty); a press on any other unit changes neither the state nor
\* correct, wrong, unit_list or previous_correct.
C25_FirstPress ==
    state = "PreGameMultiple" =>
        \A unit_id \in keys(ACTIVE) : \A g \in button_pressed(Game, unit_id) :
            IF unit_id = correct
            THEN /\ g.state = "Playing"
                 /\ unit_id \in g.previous_correct
                 /\ g.correct \in keys(ACTIVE) \ {unit_id}
                 /\ Range(g.unit_list) = keys(ACTIVE) \ {unit_id, g.correct}
                 /\ Len(g.unit_list) = Cardinality(Range(g.unit_list))
                 /\ IF g.unit_list = <<>> THEN g.wrong = NoUnit
                    ELSE g.wrong \in Range(g.unit_list)
            ELSE /\ g.state = state
                 /\ g.correct = correct
                 /\ g.wrong = wrong
                 /\ g.unit_list = unit_list
                 /\ g.previous_correct = previous_correct

(***************************************************************************)
(* The 15 s timer of PlayingAllReleased                                    *)
(***************************************************************************)
\* a 15 s timer of PlayingAllReleased is pending
TimerPending ==
    \/ Live(control_task) /\ control_task.kind = "PlayingAllReleased"
    \/ \E k \in 1 .. Len(tasks) : tasks[k].kind = "PlayingAllReleased"

\* the engine enters Timeout from PlayingAllReleased only
TimeoutFromAllReleased ==
    state # "Timeout" /\ state' = "Timeout" => state = "PlayingAllReleased"

\* C26: in the single-player mode no 15 s timer is pending while the state is
\* Playing (the press that leaves PlayingAllReleased has cancelled it), and
\* the engine enters Timeout from state PlayingAllReleased only.
C26_TimeoutOnlyWhenReleased ==
    /\ [](state = "Playing" => ~TimerPending)
    /\ [][TimeoutFromAllReleased]_vars

(***************************************************************************)
(* The round of two players                                                *)
(***************************************************************************)
\* the targets of player p in g: the target lit, then the queue
Targets(g, p) ==
    (IF g.correct_units[p] = NoUnit THEN <<>> ELSE <<g.correct_units[p]>>)
        \o g.player_unit_queue[p]

\* the round g is set up for its n active units
SetUp(g) ==
    LET n == len(g.ACTIVE)
    IN  /\ Range(Targets(g, 1)) \cap Range(Targets(g, 2)) = {}
        /\ Range(Targets(g, 1)) \cup Range(Targets(g, 2)) = keys(g.ACTIVE)
        /\ Len(Targets(g, 1)) = n \div 2
        /\ Len(Targets(g, 2)) = n - (n \div 2)
        /\ g.player_scores = <<0, 0>>
        /\ g.previous_correct = {}

\* C27: when transition_to_multiplayer has set up the round, the targets of
\* player 1 and of player 2 (the target lit and the queue) are disjoint and
\* hold every active unit id exactly once, player 1 has floor(n/2) of the n
\* units and player 2 the rest, both scores are 0 and previous_correct is
\* empty.
C27_RoundSetUp ==
    \A k \in Transitions : \A g \in run_task(Game, k) : SetUp(g)

\* the player whose target unit_id is, 0 when it is nobody's
Player(unit_id) ==
    IF unit_id = correct_units[1] THEN 1
    ELSE IF unit_id = correct_units[2] THEN 2
    ELSE 0

\* C28: during a round of two players a press on correct_units[p] adds one to
\* player_scores[p] and to no other score, adds the unit to previous_correct,
\* moves p's target on to the head of p's queue and, unless p has won,
\* cancels the 15 s inactivity timer and starts a new one; a press on any
\* other unit changes no score, no target and no timer.
C28_MultiplayerPress ==
    InRound =>
        \A unit_id \in keys(ACTIVE) : \A g \in button_pressed(Game, unit_id) :
            LET p == Player(unit_id)
            IN  IF p = 0
                THEN /\ g.player_scores = player_scores
                     /\ g.correct_units = correct_units
                     /\ g.player_unit_queue = player_unit_queue
                     /\ g.control_task = control_task
                     /\ g.tasks = tasks
                ELSE /\ g.err = ""
                     /\ g.player_scores = [player_scores EXCEPT ![p] = @ + 1]
                     /\ unit_id \in g.previous_correct
                     /\ player_unit_queue[p] # <<>> =>
                            /\ g.correct_units[p] = Head(player_unit_queue[p])
                            /\ g.player_unit_queue[p] = Tail(player_unit_queue[p])
                     /\ g.state # "EndMultiplayer" =>
                            /\ g.control_task = create_task("PlayingMultiplayer", 0)
                            /\ g.tasks = tasks

(***************************************************************************)
(* The request round and the wait in Intent                                *)
(***************************************************************************)
\* step() of coordinator i resumes in this step with the answers to its
\* requests (round = "request_gamemaster") or probes (round = "get_gamemaster")
Resumes(i, round) == alive[i] /\ pc[i] = round /\ alive'[i] /\ pc'[i] # round

\* the peers that answered coordinator i in this round
Reached(i) == {j \in Peers(i) : responses[i][j] # NoResponse}

\* the request round of a coordinator in Initial ends as the spec says
InitialRequestRound ==
    \A i \in Coordinators :
        Resumes(i, "request_gamemaster") /\ fsm_state[i] = "Initial" =>
            /\ fsm_state'[i] = "Gamemaster" =>
                   \A j \in Reached(i) : responses[i][j].status = 200
            /\ (\E j \in Reached(i) : responses[i][j].status \in {302, 409}) =>
                   fsm_state'[i] = "Initial" /\ pc'[i] = "step"

\* C29: a coordinator in Initial that has seen no higher-priority peer becomes
\* Gamemaster only if every peer that answered its /request_gamemaster
\* answered 200; if a peer answered 302 or 409 it stays in Initial and tries
\* again.
C29_UnanimousConsent == [][InitialRequestRound]_vars

\* a peer of a smaller priority number answered the probe of coordinator i as
\* the active coordinator
ActiveVisible(i) ==
    \E j \in Reached(i) : responses[i][j].status = 302 /\ responses[i][j].body < priority(i)

\* a round of the loop of a coordinator in Intent ends as the spec says
IntentRound ==
    \A i \in Coordinators : fsm_state[i] = "Intent" =>
        /\ Resumes(i, "get_gamemaster") =>
               IF ActiveVisible(i)
               THEN fsm_state'[i] = "Intent" /\ pc'[i] = "step"
               ELSE fsm_state'[i] = "Intent" /\ pc'[i] = "request_gamemaster"
        /\ Resumes(i, "request_gamemaster") /\ Reached(i) # {}
               /\ (\A j \in Reached(i) : responses[i][j].status = 200) =>
               fsm_state'[i] = "Gamemaster"

\* C30: a coordinator in Intent stays in Intent while its probe shows an
\* active peer (one in state Gamemaster) of a higher priority; as soon as the
\* probe shows none it runs the request round, and it becomes Gamemaster
\* when every peer that answers the request answers 200.
C30_IntentWhileActiveVisible == [][IntentRound]_vars

\* the registered units whose button is held down
HeldDown == {u.unit_id : u \in {a \in ACTIVE : a.button_pressed}}

\* C31: pressed_units is exactly the set of the registered units whose button
\* is held down: it holds no unit that was unregistered and misses no unit
\* that is held.
C31_PressedUnitsExact == pressed_units = {Obj(unit_id) : unit_id \in HeldDown}

\* what the next step of the task in the control_task slot may leave, with
\* the exception it raised, if any
StepOutcomes ==
    IF Live(control_task) /\ control_task.pc \in {"start", "sleep", "sleep2"}
    THEN LET t == control_task
             g0 == [sleep_over(Game, t) EXCEPT !.control_task.pc = "running"]
         IN  {r.g : r \in run(g0, t)}
    ELSE {}

\* what a register, unregister, press or release event may leave, with the
\* exception it raised, if any
EventOutcomes ==
    UNION {register(Game, u) \cup button_pressed(Game, u) \cup button_released(Game, u) :
              u \in Units}
    \cup UNION {unregister(Game, u) : u \in keys(ACTIVE)}

\* C32: in no reachable state does an event handler of the engine or the next
\* step of its control task fail an assertion on the control_task slot or look
\* up a unit id that is not a key of ACTIVE.
C32_NoEngineFailure ==
    \A g \in EventOutcomes \cup StepOutcomes : g.err \notin {"AssertionError", "KeyError"}

\* C33: between event handlers the state is NoUnits if and only if no unit
\* is registered.
C33_NoUnitsIffEmpty == (state = "NoUnits") <=> (ACTIVE = {})

\* C34: in state PreGameSingle exactly one unit is registered, and in state
\* PreGameMultiple at least two are, so that the selection loop of
\* _control_PreGameMultiple finds a unit that differs from correct.
C34_PreGamePopulation ==
    /\ state = "PreGameSingle" => len(ACTIVE) = 1
    /\ state = "PreGameMultiple" => len(ACTIVE) >= 2

\* C35: correct and wrong are each None or a key of ACTIVE, and every element
\* of unit_list and of previous_correct is a key of ACTIVE.
C35_TargetsAreKeys ==
    /\ correct \in keys(ACTIVE) \cup {NoUnit}
    /\ wrong \in keys(ACTIVE) \cup {NoUnit}
    /\ Range(unit_list) \subseteq keys(ACTIVE)
    /\ previous_correct \subseteq keys(ACTIVE)

\* C36: the engine is never in state WaitRelease and no task of
\* _control_WaitRelease exists, so the WaitRelease press handler, release
\* handler and control task never run.
C36_NeverWaitRelease ==
    /\ state # "WaitRelease"
    /\ control_task.kind # "WaitRelease"
    /\ \A k \in 1 .. Len(tasks) : tasks[k].kind # "WaitRelease"

\* C36 witness: the Timeout task has ended while a button is held, and the
\* engine waits for the release in state Timeout.
C36_Witness ==
    /\ state = "Timeout"
    /\ control_task = Finished
    /\ pressed_units # {}

\* a press of a unit that increments the score of player p counts a unit of
\* p's partition of this round that was not counted before
CountsNewUnit(g, p) ==
    g.player_scores[p] > player_scores[p] =>
        Cardinality(g.counted[p]) > Cardinality(counted[p])

\* C37: throughout a round of two players, from _start_multiplayer on, the
\* score of player p is at most the number of distinct units of p's partition
\* of this round whose press was counted: no target of an earlier round and no
\* unit outside the partition is counted, and no unit is counted twice.
C37_ScoreCountsPartition ==
    state = "PreGameMultiplayer" =>
        \A p \in {1, 2} :
            /\ player_scores[p] <= Cardinality(counted[p])
            /\ \A unit_id \in keys(ACTIVE) : \A g \in button_pressed(Game, unit_id) :
                   CountsNewUnit(g, p)

\* C38: when unit_id has been registered again on a newer connection, the
\* end of the older connection that registered it first, by a close or by a
\* failure, leaves the session of unit_id in ACTIVE.
C38_OlderCloseKeepsSession ==
    \A unit_id \in older \cap keys(ACTIVE) : \A g \in handler_closed(Game, unit_id) :
        unit_id \in keys(g.ACTIVE)

\* a running coordinator in state Gamemaster is in state Gamemaster after
\* the step, unless its process is killed
StaysGamemaster ==
    \A i \in Coordinators :
        alive[i] /\ fsm_state[i] = "Gamemaster" /\ alive'[i] => fsm_state'[i] = "Gamemaster"

\* C39: a coordinator whose election state is Gamemaster keeps it for the rest
\* of the life of its process, whatever step, HTTP request or message of a
\* unit follows, and no coordinator is ever in state End.
C39_GamemasterForLife ==
    /\ [](\A i \in Coordinators : fsm_state[i] # "End")
    /\ [][StaysGamemaster]_vars

\* C39 witness: the coordinator that hosts the engine is Gamemaster and serves
\* its units, a unit has registered with it, and a peer's GET /gamemaster has
\* been answered 302 by it.
C39_Witness ==
    /\ alive[Host] /\ fsm_state[Host] = "Gamemaster" /\ pc[Host] = "serve"
    /\ ACTIVE # {}
    /\ \E j \in Peers(Host) : responses[j][Host].status = 302

====
